---- MODULE Spec2Model ----
(***************************************************************************)
(* Model of backend/services/claim_engine.py: the deterministic claim      *)
(* scoring function compute_claim_score, the catalog-metadata enrichment   *)
(* of an uploaded policy, and the run_claim_check pipeline with its        *)
(* collaborators (vector_store, embedder, llm) as nondeterministic         *)
(* environments.                                                           *)
(*                                                                         *)
(* Python strings whose characters the code inspects (.lower(), "in") are  *)
(* sequences of one-character strings.  A dict entry is a record           *)
(* [tag, v]: tag "missing" (no such key), "null" (key holds None) or       *)
(* "val" (key holds v).  A value the code expects to be a list is a        *)
(* record [tag, items]: "null" (None), "list", "str" (a string where a     *)
(* list was expected) or "num" (a non-zero number / true).                 *)
(***************************************************************************)
EXTENDS Integers, Sequences, FiniteSets, TLC

(* ------------------------------------------------------------------ *)
(* Bounds of the explored inputs                                       *)
(* ------------------------------------------------------------------ *)
MaxFlags == 5
MaxExclusions == 2
MaxPed == 4
MaxCatalog == 2

(* ------------------------------------------------------------------ *)
(* Strings                                                             *)
(* ------------------------------------------------------------------ *)
UpperChars ==
    <<"A", "B", "C", "D", "E", "F", "G", "H", "I", "J", "K", "L", "M", "N", "O", "P", "Q", "R", "S", "T", "U", "V", "W", "X", "Y", "Z">>
LowerChars ==
    <<"a", "b", "c", "d", "e", "f", "g", "h", "i", "j", "k", "l", "m", "n", "o", "p", "q", "r", "s", "t", "u", "v", "w", "x", "y", "z">>

EmptyStr == <<>>
STR_covered ==
    <<"c", "o", "v", "e", "r", "e", "d">>
STR_Covered ==
    <<"C", "o", "v", "e", "r", "e", "d">>
STR_partially_covered ==
    <<"p", "a", "r", "t", "i", "a", "l", "l", "y", "_", "c", "o", "v", "e", "r", "e", "d">>
STR_excluded ==
    <<"e", "x", "c", "l", "u", "d", "e", "d">>
STR_unknown ==
    <<"u", "n", "k", "n", "o", "w", "n">>
STR_maybe ==
    <<"m", "a", "y", "b", "e">>
STR_no_limit ==
    <<"n", "o", " ", "l", "i", "m", "i", "t">>
STR_no_sub_limits ==
    <<"n", "o", " ", "s", "u", "b", "-", "l", "i", "m", "i", "t", "s">>
STR_no_restriction ==
    <<"n", "o", " ", "r", "e", "s", "t", "r", "i", "c", "t", "i", "o", "n">>
STR_No_limit ==
    <<"N", "o", " ", "l", "i", "m", "i", "t">>
STR_NO_SUB_LIMITS ==
    <<"N", "O", " ", "S", "U", "B", "-", "L", "I", "M", "I", "T", "S">>
STR_pct_of_sum_insured ==
    <<"2", "%", " ", "o", "f", " ", "s", "u", "m", " ", "i", "n", "s", "u", "r", "e", "d">>
STR_Rs_5000 ==
    <<"R", "s", " ", "5", "0", "0", "0">>
STR_AIG ==
    <<"A", "I", "G">>
STR_tata_aig ==
    <<"t", "a", "t", "a", " ", "a", "i", "g">>
STR_Star ==
    <<"S", "t", "a", "r">>

\* str.lower() on one character
LowerChar(c) ==
    IF \E i \in 1..Len(UpperChars) : UpperChars[i] = c
    THEN LowerChars[CHOOSE i \in 1..Len(UpperChars) : UpperChars[i] = c]
    ELSE c

\* str.lower()
Lower(s) ==
    [i \in 1..Len(s) |-> LowerChar(s[i])]

\* the Python test `sub in s` on strings
Contains(sub, s) ==
    \E i \in 0..(Len(s) - Len(sub)) :
        \A j \in 1..Len(sub) : s[i + j] = sub[j]

(* ------------------------------------------------------------------ *)
(* Python values                                                       *)
(* ------------------------------------------------------------------ *)
Missing(d) == [tag |-> "missing", v |-> d]
Null(d) == [tag |-> "null", v |-> d]
Val(x) == [tag |-> "val", v |-> x]

\* dict.get(key): a missing key reads as None
Get(entry) ==
    IF entry.tag = "missing" THEN Null(entry.v) ELSE entry

\* dict.get(key, default)
GetDefault(entry, default) ==
    IF entry.tag = "missing" THEN Val(default) ELSE entry

PyNone == [tag |-> "null", items |-> <<>>]
PyList(xs) == [tag |-> "list", items |-> xs]
PyStr(s) == [tag |-> "str", items |-> s]
PyNum == [tag |-> "num", items |-> <<>>]

\* truth value of a list-typed value: None, [] and "" are falsy
Truthy(x) ==
    CASE x.tag = "null" -> FALSE
      [] x.tag = "num" -> TRUE
      [] OTHER -> x.items # <<>>

\* the Python expression `x or []`
OrEmptyList(x) ==
    IF Truthy(x) THEN x ELSE PyList(<<>>)

Returned(n) == [exc |-> "none", val |-> n]
Raised(e) == [exc |-> e, val |-> 0]
NotCalled == [exc |-> "pending", val |-> 0]

Max(a, b) == IF a >= b THEN a ELSE b
Min(a, b) == IF a <= b THEN a ELSE b

(* ------------------------------------------------------------------ *)
(* compute_claim_score                                                 *)
(* ------------------------------------------------------------------ *)
\* lines 93-98: coverage base
CoverageBase(coverage_status) ==
    LET status == Lower(coverage_status)
    IN  IF status = STR_covered THEN 50
        ELSE IF status = STR_partially_covered THEN 25
        ELSE 0

\* a slip in line 102: a wait of exactly one year misses the +20
PedBonus_BelowOne(ped) ==
    IF ped < 1 THEN 20
    ELSE IF ped <= 2 THEN 12
    ELSE 0

\* lines 101-105: waiting period from metadata (ped is an integer here)
PedBonus(ped) ==
    IF ped <= 1 THEN 20
    ELSE IF ped <= 2 THEN 12
    ELSE 0

\* a slip in the exclusion penalty: 20 taken off where the code takes 25
ExclusionDelta_Penalty20(exclusions_applicable) ==
    LET excl == OrEmptyList(exclusions_applicable)
    IN  IF ~Truthy(excl) THEN 15 ELSE 0 - 20

\* lines 108-112: exclusions
ExclusionDelta(exclusions_applicable) ==
    LET excl == OrEmptyList(exclusions_applicable)
    IN  IF ~Truthy(excl) THEN 15 ELSE 0 - 25

\* a slip in the risk-flag branch: the capped penalty added, not subtracted
RiskFlagDelta_Added(risk_flags) ==
    LET flags == OrEmptyList(risk_flags)
    IN  IF ~Truthy(flags) THEN 10
        ELSE Min(Len(flags.items) * 5, 20)

\* lines 115-119: risk flags (flags is a sized value here)
RiskFlagDelta(risk_flags) ==
    LET flags == OrEmptyList(risk_flags)
    IN  IF ~Truthy(flags) THEN 10
        ELSE 0 - Min(Len(flags.items) * 5, 20)

\* lines 122-123: co-pay (co_pay is a number here)
CoPayPenalty(co_pay) ==
    IF co_pay > 0 THEN 0 - 5 ELSE 0

\* lines 124-128: room rent limit
RoomRentPenalty(meta) ==
    LET got == Get(meta.room_rent_limit)
        room == IF got.tag = "val" THEN got.v ELSE EmptyStr
    IN  IF room # EmptyStr /\ Contains(<<"%">>, room) THEN 0 - 10
        ELSE IF room # EmptyStr
                /\ Lower(room) \notin
                     {STR_no_limit, STR_no_sub_limits, STR_no_restriction, EmptyStr}
             THEN 0 - 5
        ELSE 0

\* line 130
Clamp(score) ==
    Max(0, Min(100, score))

\* The comparisons of lines 102 and 122 and len() of line 119 raise
\* TypeError on None (and len() on a number).
ScoreRaises(risk_flags, meta) ==
    \/ GetDefault(meta.waiting_period_preexisting_years, 4).tag = "null"
    \/ OrEmptyList(risk_flags).tag = "num"
    \/ GetDefault(meta.co_pay_percent, 0).tag = "null"

compute_claim_score(coverage_status, exclusions_applicable, risk_flags, meta) ==
    IF ScoreRaises(risk_flags, meta) THEN Raised("TypeError")
    ELSE Returned(Clamp(
             CoverageBase(coverage_status)
           + PedBonus(GetDefault(meta.waiting_period_preexisting_years, 4).v)
           + ExclusionDelta(exclusions_applicable)
           + RiskFlagDelta(risk_flags)
           + CoPayPenalty(GetDefault(meta.co_pay_percent, 0).v)
           + RoomRentPenalty(meta)))

(* ------------------------------------------------------------------ *)
(* Metadata enrichment of an uploaded policy (run_claim_check 179-193)  *)
(* ------------------------------------------------------------------ *)
\* lines 187-190, in the order the loop visits them
ScoringFields ==
    <<"waiting_period_preexisting_years", "co_pay_percent", "room_rent_limit",
      "waiting_period_maternity_months", "covers_maternity", "covers_opd">>

\* (record.get("insurer") or "").lower(), lines 181 and 184
InsurerLower(record) ==
    LET got == Get(record.insurer)
    IN  Lower(IF got.tag = "val" THEN got.v ELSE EmptyStr)

\* line 185
InsurerMatches(ins, cp_ins) ==
    /\ ins # EmptyStr
    /\ (Contains(ins, cp_ins) \/ Contains(cp_ins, ins))

\* a slip in line 191: the test that the uploaded field is empty left out
MergeField_Overwrites(policy_entry, cp_entry) ==
    IF Get(cp_entry).tag # "null"
    THEN cp_entry
    ELSE policy_entry

\* lines 191-192 for one field: the entry of policy after the assignment
MergeField(policy_entry, cp_entry) ==
    IF Get(cp_entry).tag # "null" /\ Get(policy_entry).tag = "null"
    THEN cp_entry
    ELSE policy_entry

\* lines 187-192: the inner loop over the six scoring fields
MergeCatalog(meta, cp) ==
    [meta EXCEPT
       !.waiting_period_preexisting_years =
            MergeField(@, cp.waiting_period_preexisting_years),
       !.co_pay_percent = MergeField(@, cp.co_pay_percent),
       !.room_rent_limit = MergeField(@, cp.room_rent_limit),
       !.waiting_period_maternity_months =
            MergeField(@, cp.waiting_period_maternity_months),
       !.covers_maternity = MergeField(@, cp.covers_maternity),
       !.covers_opd = MergeField(@, cp.covers_opd)]

\* lines 183-193: the scan of all_catalog from position i, with its break
RECURSIVE EnrichFrom(_, _, _, _)
EnrichFrom(meta, ins, all_catalog, i) ==
    IF i > Len(all_catalog) THEN meta
    ELSE IF InsurerMatches(ins, InsurerLower(all_catalog[i]))
         THEN MergeCatalog(meta, all_catalog[i])
         ELSE EnrichFrom(meta, ins, all_catalog, i + 1)

\* lines 181-193
Enrich(uploaded, all_catalog) ==
    EnrichFrom(uploaded, InsurerLower(uploaded), all_catalog, 1)

(* ------------------------------------------------------------------ *)
(* Retrieval, fusion and context (run_claim_check 195-235)             *)
(* ------------------------------------------------------------------ *)
STR_general ==
    <<"g", "e", "n", "e", "r", "a", "l">>
STR_exclusions ==
    <<"e", "x", "c", "l", "u", "s", "i", "o", "n", "s">>
STR_coverage ==
    <<"c", "o", "v", "e", "r", "a", "g", "e">>

\* line 16
CLAIM_SECTIONS ==
    <<"exclusions", "coverage", "waiting_periods", "conditions", "limits">>

\* str.upper()
UpperChar(c) ==
    IF \E i \in 1..Len(LowerChars) : LowerChars[i] = c
    THEN UpperChars[CHOOSE i \in 1..Len(LowerChars) : LowerChars[i] = c]
    ELSE c

Upper(s) ==
    [i \in 1..Len(s) |-> UpperChar(s[i])]

\* lines 281-290: a chunk id of "" stands for an id that is None or empty
RECURSIVE DedupeFrom(_, _, _, _)
DedupeFrom(chunks, i, seen, result) ==
    IF i > Len(chunks) THEN result
    ELSE LET cid == chunks[i].id
         IN  IF cid # "" /\ cid \notin seen
             THEN DedupeFrom(chunks, i + 1, seen \cup {cid}, Append(result, chunks[i]))
             ELSE DedupeFrom(chunks, i + 1, seen, result)

_dedupe(chunks) ==
    DedupeFrom(chunks, 1, {}, <<>>)

\* position of the first chunk of the list with this id, 0 if none
RankOf(list, id) ==
    IF \E i \in 1..Len(list) : list[i].id = id
    THEN CHOOSE i \in 1..Len(list) :
            list[i].id = id /\ \A j \in 1..(i - 1) : list[j].id # id
    ELSE 0

\* the fused score of an id, sum of 1/(60 + rank) over the lists holding
\* it, as a fraction <<numerator, denominator>>
RrfScore(semantic, keyword, id) ==
    LET a == RankOf(semantic, id)
        b == RankOf(keyword, id)
    IN  IF a > 0 /\ b > 0 THEN <<(60 + a) + (60 + b), (60 + a) * (60 + b)>>
        ELSE IF a > 0 THEN <<1, 60 + a>>
        ELSE IF b > 0 THEN <<1, 60 + b>>
        ELSE <<0, 1>>

\* vector_store.rrf_fusion: Reciprocal Rank Fusion of two ranked lists,
\* sorted by fused score, ties in input order, cut to top_k
rrf_fusion(semantic, keyword, top_k) ==
    LET all == semantic \o keyword
        firsts == {i \in 1..Len(all) : RankOf(all, all[i].id) = i}
        score(i) == RrfScore(semantic, keyword, all[i].id)
        before(j, i) ==
            \/ score(j)[1] * score(i)[2] > score(i)[1] * score(j)[2]
            \/ /\ score(j)[1] * score(i)[2] = score(i)[1] * score(j)[2]
               /\ j < i
        place(i) == 1 + Cardinality({j \in firsts : before(j, i)})
    IN  [p \in 1..Min(Cardinality(firsts), top_k) |->
            all[CHOOSE i \in firsts : place(i) = p]]

\* the guard left out: an empty fused set is let through
NoEvidence_Unguarded(fused_chunks) ==
    FALSE

\* line 227: the guard
NoEvidence(fused_chunks) ==
    fused_chunks = <<>>

\* lines 47-53: one tagged part per chunk, in order
_build_context_block(chunks) ==
    [i \in 1..Len(chunks) |->
        [chunk |-> i,
         section |-> Upper(GetDefault(chunks[i].section_type, STR_general).v),
         page |-> GetDefault(chunks[i].page_number, "?").v,
         content |-> chunks[i].content]]

\* the fallback left out: no coverage vector after a failed probe embedding
CoverageFallback_Unset(query_vector) ==
    "none"

\* line 206: the coverage vector when embedding the probe text failed
CoverageFallback(query_vector) ==
    query_vector

\* the redirect the comment of line 172 rules out: search the document
\* indexed for the uploaded record's insurer
UploadedSearchId_InsurerDocument(selected_id, uploaded) ==
    IF Get(uploaded.insurer).tag = "val" THEN "u2" ELSE selected_id

\* line 177: the document searched for an uploaded policy
UploadedSearchId(selected_id, uploaded) ==
    selected_id

(* ------------------------------------------------------------------ *)
(* Normalisation of the analysis and the result (lines 248-278)       *)
(* ------------------------------------------------------------------ *)
RecognizedStatuses ==
    {STR_covered, STR_partially_covered, STR_excluded, STR_unknown}

\* the membership test of lines 250-251 left out
NormalizeStatus_Unchecked(entry) ==
    GetDefault(entry, STR_unknown).v

\* lines 249-251
NormalizeStatus(entry) ==
    LET got == GetDefault(entry, STR_unknown)
    IN  IF got.tag = "val" /\ got.v \in RecognizedStatuses THEN got.v ELSE STR_unknown

\* the Python expression `entry or default` on a text entry
TextOr(entry, default) ==
    IF entry.tag = "val" /\ entry.v # "" THEN entry.v ELSE default

\* `record.get("name") or "Unknown Policy"`, lines 158 and 176
DisplayName(entry) ==
    TextOr(entry, "Unknown Policy")

NoResult ==
    [fields |-> {}, error |-> "None", policy_name |-> "", diagnosis |-> "",
     treatment_type |-> "", coverage_status |-> EmptyStr, feasibility_score |-> 0,
     severity_requirements |-> PyNone, waiting_period |-> "",
     exclusions_applicable |-> PyNone, risk_flags |-> PyNone,
     required_documents |-> PyNone, analysis_summary |-> "", chunks_used |-> 0]

\* the returns of lines 161-169, 175, 200 and 228-232: a dict with the one key
ErrorResult(message) ==
    [NoResult EXCEPT !.fields = {"error"}, !.error = message]

SuccessFields ==
    {"policy_name", "diagnosis", "treatment_type", "coverage_status", "feasibility_score",
     "severity_requirements", "waiting_period", "exclusions_applicable", "risk_flags",
     "required_documents", "analysis_summary", "chunks_used", "error"}

\* lines 249-278 once the analysis has been received: the dict returned, or
\* the TypeError of compute_claim_score
AnalysisOutcome(analysis_reply, name, cond, treatment, metadata, fused_chunks) ==
    LET status == NormalizeStatus(analysis_reply.coverage_status)
        excl == OrEmptyList(analysis_reply.exclusions_applicable)
        flags == OrEmptyList(analysis_reply.risk_flags)
        score == compute_claim_score(status, excl, flags, metadata)
    IN  [raised |-> score.exc,
         result |->
            IF score.exc # "none" THEN NoResult
            ELSE [fields |-> SuccessFields, error |-> "None", policy_name |-> name,
                  diagnosis |-> cond, treatment_type |-> treatment,
                  coverage_status |-> status, feasibility_score |-> score.val,
                  severity_requirements |->
                      OrEmptyList(analysis_reply.severity_requirements),
                  waiting_period |-> TextOr(analysis_reply.waiting_period, ""),
                  exclusions_applicable |-> excl, risk_flags |-> flags,
                  required_documents |-> OrEmptyList(analysis_reply.required_documents),
                  analysis_summary |->
                      TextOr(analysis_reply.analysis_summary,
                             "Analysis could not be completed from available context."),
                  chunks_used |-> Len(fused_chunks)]]

(* ------------------------------------------------------------------ *)
(* State                                                               *)
(* ------------------------------------------------------------------ *)
VARIABLES
    sc_status,       \* compute_claim_score: coverage_status argument
    sc_exclusions,   \* exclusions_applicable argument
    sc_flags,        \* risk_flags argument
    sc_policy,       \* policy argument
    sc_result,       \* what the latest call returned or raised
    sc_prev,         \* what the call before it returned or raised
    sc_op,           \* the latest call: "init", "call", "append_flag", "add_exclusion"
    en_uploaded,     \* enrichment: the record get_policy_by_id returned
    en_catalog,      \* the list list_catalog_policies returned
    en_policy,       \* the metadata record after the enrichment loop
    en_pc,           \* "start" before the loop has run, "done" after
    pc,              \* run_claim_check: the step about to run, "done" once it has ended
    policy_id,       \* the caller's policy reference
    condition,       \* the caller's condition text
    treatment_type,  \* the caller's treatment type
    route,           \* "catalog" or "uploaded": the branch of line 155 taken
    enriched,        \* whether the enrichment loop changed the uploaded record
    policy,          \* the metadata record scored
    policy_name,
    search_policy_id,
    query_embedding,
    coverage_embedding,
    embed_failed,    \* which of the two embed_text calls raised
    calls,           \* the embedder, search and analysis calls issued, in order
    sem_chunks,
    cov_chunks,
    sec_chunks,
    kw_chunks,
    fused,
    context_block,
    analysis,        \* the reply of llm.chat_json
    result,          \* the dict returned
    raised           \* the exception that left run_claim_check, "none" if none

scoreVars == <<sc_status, sc_exclusions, sc_flags, sc_policy, sc_result, sc_prev, sc_op>>
enrichVars == <<en_uploaded, en_catalog, en_policy, en_pc>>
pipeVars ==
    <<pc, policy_id, condition, treatment_type, route, enriched, policy, policy_name,
      search_policy_id, query_embedding, coverage_embedding, embed_failed, calls,
      sem_chunks, cov_chunks, sec_chunks, kw_chunks, fused, context_block, analysis,
      result, raised>>
vars == <<scoreVars, enrichVars, pipeVars>>

(* ------------------------------------------------------------------ *)
(* Scoring: inputs and calls                                           *)
(* ------------------------------------------------------------------ *)
StatusInputs ==
    {STR_covered, STR_Covered, STR_partially_covered, STR_excluded, STR_unknown, STR_maybe}

SeqsUpTo(S, n) ==
    UNION {[1..k -> S] : k \in 0..n}

ExclusionTexts == {"Cosmetic surgery is excluded"}
ExclusionInputs ==
    {PyNone} \cup {PyList(xs) : xs \in SeqsUpTo(ExclusionTexts, MaxExclusions)}

\* two of the six flags of the analysis vocabulary (line 31)
RiskFlagVocabulary == {"pre_auth_required", "documentation_intensive"}

PedInputs ==
    {Missing(0), Null(0)} \cup {Val(y) : y \in 0..MaxPed}
CoPayInputs ==
    {Missing(0), Null(0), Val(0), Val(10)}
RoomInputs ==
    {Missing(EmptyStr), Null(EmptyStr)}
    \cup {Val(r) : r \in {EmptyStr, STR_No_limit, STR_NO_SUB_LIMITS, STR_no_restriction,
                          STR_pct_of_sum_insured, STR_Rs_5000}}

ScoreMetadata ==
    [waiting_period_preexisting_years : PedInputs,
     co_pay_percent : CoPayInputs,
     room_rent_limit : RoomInputs]

ScoreInputs ==
    /\ sc_status \in StatusInputs
    /\ sc_exclusions \in ExclusionInputs
    /\ sc_flags \in {PyNone, PyList(<<>>)}
    /\ sc_policy \in ScoreMetadata
    /\ sc_result = NotCalled
    /\ sc_prev = NotCalled
    /\ sc_op = "init"

\* a first call with the drawn arguments
ScoreCall ==
    /\ sc_op = "init"
    /\ sc_result' = compute_claim_score(sc_status, sc_exclusions, sc_flags, sc_policy)
    /\ sc_prev' = sc_result
    /\ sc_op' = "call"
    /\ UNCHANGED <<sc_status, sc_exclusions, sc_flags, sc_policy>>
    /\ UNCHANGED <<enrichVars, pipeVars>>

\* the same call with one more risk flag appended
ScoreAppendFlag ==
    /\ sc_op # "init"
    /\ sc_flags.tag = "list"
    /\ Len(sc_flags.items) < MaxFlags
    /\ \E x \in RiskFlagVocabulary :
          /\ sc_flags' = PyList(Append(sc_flags.items, x))
          /\ sc_result' = compute_claim_score(sc_status, sc_exclusions, sc_flags', sc_policy)
    /\ sc_prev' = sc_result
    /\ sc_op' = "append_flag"
    /\ UNCHANGED <<sc_status, sc_exclusions, sc_policy>>
    /\ UNCHANGED <<enrichVars, pipeVars>>

\* the same call with a non-empty exclusions list in place of an empty one
ScoreAddExclusion ==
    /\ sc_op # "init"
    /\ sc_exclusions = PyList(<<>>)
    /\ \E xs \in SeqsUpTo(ExclusionTexts, MaxExclusions) \ {<<>>} :
          /\ sc_exclusions' = PyList(xs)
          /\ sc_result' = compute_claim_score(sc_status, sc_exclusions', sc_flags, sc_policy)
    /\ sc_prev' = sc_result
    /\ sc_op' = "add_exclusion"
    /\ UNCHANGED <<sc_status, sc_flags, sc_policy>>
    /\ UNCHANGED <<enrichVars, pipeVars>>

ScoreNext ==
    \/ ScoreCall
    \/ ScoreAppendFlag
    \/ ScoreAddExclusion

(* ------------------------------------------------------------------ *)
(* Enrichment: inputs and the call                                     *)
(* ------------------------------------------------------------------ *)
ScoringFieldSet == {ScoringFields[i] : i \in 1..Len(ScoringFields)}

FieldDefaults ==
    [waiting_period_preexisting_years |-> 0, co_pay_percent |-> 0,
     room_rent_limit |-> EmptyStr, waiting_period_maternity_months |-> 0,
     covers_maternity |-> FALSE, covers_opd |-> FALSE]

\* the values an uploaded record carries where it carries one
UploadedValues ==
    [waiting_period_preexisting_years |-> 1, co_pay_percent |-> 0,
     room_rent_limit |-> STR_No_limit, waiting_period_maternity_months |-> 9,
     covers_maternity |-> TRUE, covers_opd |-> TRUE]

\* the values of two different catalog products
CatalogValues ==
    <<[waiting_period_preexisting_years |-> 2, co_pay_percent |-> 10,
       room_rent_limit |-> STR_pct_of_sum_insured, waiting_period_maternity_months |-> 24,
       covers_maternity |-> FALSE, covers_opd |-> FALSE],
      [waiting_period_preexisting_years |-> 3, co_pay_percent |-> 20,
       room_rent_limit |-> STR_Rs_5000, waiting_period_maternity_months |-> 36,
       covers_maternity |-> TRUE, covers_opd |-> TRUE]>>

\* which scoring fields a record carries
PresencePatterns ==
    {{},
     ScoringFieldSet,
     {"waiting_period_preexisting_years", "room_rent_limit", "covers_maternity"},
     {"co_pay_percent", "waiting_period_maternity_months", "covers_opd"}}

Entry(f, present, values, absentTag) ==
    IF f \in present THEN Val(values[f])
    ELSE [tag |-> absentTag, v |-> FieldDefaults[f]]

MakePolicy(id, name, user_label, insurer, present, values, absentTag) ==
    [id |-> id, name |-> name, user_label |-> user_label, insurer |-> insurer,
     waiting_period_preexisting_years |->
         Entry("waiting_period_preexisting_years", present, values, absentTag),
     co_pay_percent |-> Entry("co_pay_percent", present, values, absentTag),
     room_rent_limit |-> Entry("room_rent_limit", present, values, absentTag),
     waiting_period_maternity_months |->
         Entry("waiting_period_maternity_months", present, values, absentTag),
     covers_maternity |-> Entry("covers_maternity", present, values, absentTag),
     covers_opd |-> Entry("covers_opd", present, values, absentTag)]

InsurerEntries ==
    {Null(EmptyStr), Val(STR_AIG), Val(STR_tata_aig), Val(STR_Star)}

UploadedRecords ==
    {MakePolicy("u1", Missing(EmptyStr), Val("My policy"), ins, present, UploadedValues, tag) :
        ins \in InsurerEntries, present \in PresencePatterns, tag \in {"missing", "null"}}

CatalogRecords ==
    {MakePolicy("", Val("Medicare"), Missing(""), ins, present, CatalogValues[k], "null") :
        ins \in InsurerEntries, present \in PresencePatterns, k \in 1..Len(CatalogValues)}

EnrichInputs ==
    /\ en_uploaded \in UploadedRecords
    /\ en_catalog \in SeqsUpTo(CatalogRecords, MaxCatalog)
    /\ en_policy = en_uploaded
    /\ en_pc = "start"

\* lines 180-193 on the drawn uploaded record and catalog list
EnrichCall ==
    /\ en_pc = "start"
    /\ en_policy' = Enrich(en_uploaded, en_catalog)
    /\ en_pc' = "done"
    /\ UNCHANGED <<en_uploaded, en_catalog>>
    /\ UNCHANGED <<scoreVars, pipeVars>>

EnrichNext ==
    \/ EnrichCall

(* ------------------------------------------------------------------ *)
(* run_claim_check: the collaborators' answers and the steps           *)
(* ------------------------------------------------------------------ *)
\* policy references: a catalog product, an uploaded document, neither
CatalogIds == {"c1"}
UploadedIds == {"u1"}
PolicyRefs == CatalogIds \cup UploadedIds \cup {"zz"}
\* the uploaded, indexed documents find_uploaded_for_insurer may return
IndexedDocIds == {"u1", "u2"}

Conditions == {"cataract"}
TreatmentTypes == {"surgery"}

\* what get_catalog_policy may return for a catalog reference
StoreCatalog ==
    {c \in CatalogRecords : c.insurer = Val(STR_tata_aig)}
    \cup {MakePolicy("", Null(""), Missing(""), Null(EmptyStr), {}, CatalogValues[1], "null")}

\* what get_policy_by_id may return for an uploaded reference
StoreUploaded ==
    {u \in UploadedRecords : u.insurer \in {Null(EmptyStr), Val(STR_AIG)}}
    \cup {MakePolicy("u1", Missing(EmptyStr), Null(""), Val(STR_Star), ScoringFieldSet,
                     UploadedValues, "null")}

MakeChunk(id, section_type, page_number) ==
    [id |-> id, section_type |-> section_type, page_number |-> page_number,
     content |-> "clause text"]

ChunkK1 == MakeChunk("k1", Val(STR_exclusions), Val("12"))
ChunkK2 == MakeChunk("k2", Missing(EmptyStr), Missing(""))
ChunkNoId == MakeChunk("", Val(STR_coverage), Val("3"))

\* what a semantic or section search may return
SemanticResults == {<<>>, <<ChunkK1>>, <<ChunkNoId, ChunkK2>>}
\* what the keyword search may return
KeywordResults == {<<>>, <<ChunkK2>>, <<ChunkK2, ChunkK1>>}

ListEntry(tag, items) == [tag |-> tag, items |-> items]

MakeReply(status, sev, wp, excl, flags, docs, summary) ==
    [coverage_status |-> status, severity_requirements |-> sev, waiting_period |-> wp,
     exclusions_applicable |-> excl, risk_flags |-> flags, required_documents |-> docs,
     analysis_summary |-> summary]

StatusReplies ==
    {Missing(EmptyStr), Null(EmptyStr), Val(STR_covered), Val(STR_partially_covered),
     Val(STR_excluded), Val(STR_Covered)}

\* the JSON objects llm.chat_json may hand back: well formed, empty, all
\* null, and with values of another type where a list is expected
AnalysisReplies ==
    UNION {
      {MakeReply(st, PyList(<<"hospitalised 24h">>), Val("2 years"), PyList(<<>>),
                 PyList(<<>>), PyList(<<"discharge summary">>), Val("Covered under 2.1")),
       MakeReply(st, PyList(<<>>), Val(""), PyList(<<"Cosmetic surgery is excluded">>),
                 PyList(<<"pre_auth_required", "documentation_intensive">>),
                 PyList(<<>>), Val("Excluded under 4.3")),
       MakeReply(st, ListEntry("missing", <<>>), Missing(""), ListEntry("missing", <<>>),
                 ListEntry("missing", <<>>), ListEntry("missing", <<>>), Missing("")),
       MakeReply(st, PyNone, Null(""), PyNone, PyNone, PyNone, Null("")),
       MakeReply(st, PyStr(<<"n", "o", "n", "e">>), Val("none"), PyStr(<<"n", "/", "a">>),
                 PyStr(<<"n", "o", "n", "e">>), PyNum, Val("See clause 3")),
       MakeReply(st, PyList(<<>>), Val(""), PyList(<<>>), PyNum, PyList(<<>>), Val("ok"))}
      : st \in StatusReplies }

NoReply ==
    MakeReply(Missing(EmptyStr), ListEntry("missing", <<>>), Missing(""),
              ListEntry("missing", <<>>), ListEntry("missing", <<>>),
              ListEntry("missing", <<>>), Missing(""))

NoPolicy ==
    MakePolicy("", Missing(EmptyStr), Missing(""), Null(EmptyStr), {},
               UploadedValues, "missing")

\* one call of a collaborator, as the engine issued it
Call(fn, arg, doc, top_k, sections) ==
    [fn |-> fn, arg |-> arg, doc |-> doc, top_k |-> top_k, sections |-> sections]

PipeInit ==
    /\ pc = "start"
    /\ policy_id \in PolicyRefs
    /\ condition \in Conditions
    /\ treatment_type \in TreatmentTypes
    /\ route = "none"
    /\ enriched = FALSE
    /\ policy = NoPolicy
    /\ policy_name = ""
    /\ search_policy_id = ""
    /\ query_embedding = "none"
    /\ coverage_embedding = "none"
    /\ embed_failed = {}
    /\ calls = <<>>
    /\ sem_chunks = <<>> /\ cov_chunks = <<>> /\ sec_chunks = <<>> /\ kw_chunks = <<>>
    /\ fused = <<>>
    /\ context_block = <<>>
    /\ analysis = NoReply
    /\ result = NoResult
    /\ raised = "none"

Return(r) ==
    /\ result' = r
    /\ pc' = "done"

\* lines 153-170: the reference names a catalog product
ResolveCatalog ==
    /\ pc = "start"
    /\ policy_id \in CatalogIds
    /\ \E catalog_policy \in StoreCatalog :
          /\ policy' = catalog_policy
          /\ policy_name' = DisplayName(catalog_policy.name)
    /\ route' = "catalog"
    /\ \/ \* find_uploaded_for_insurer finds no indexed document
          /\ Return(ErrorResult("No embedded policy document found"))
          /\ UNCHANGED search_policy_id
       \/ \E uploaded_match \in IndexedDocIds :
             /\ search_policy_id' = uploaded_match
             /\ pc' = "embed_query"
             /\ UNCHANGED result
    /\ UNCHANGED <<policy_id, condition, treatment_type, enriched, query_embedding,
                   coverage_embedding, embed_failed, calls, sem_chunks, cov_chunks,
                   sec_chunks, kw_chunks, fused, context_block, analysis, raised>>
    /\ UNCHANGED <<scoreVars, enrichVars>>

\* lines 171-175: the reference is in neither store
ResolveNotFound ==
    /\ pc = "start"
    /\ policy_id \notin CatalogIds
    /\ policy_id \notin UploadedIds
    /\ Return(ErrorResult("Policy not found."))
    /\ UNCHANGED <<policy_id, condition, treatment_type, route, enriched, policy,
                   policy_name, search_policy_id, query_embedding, coverage_embedding,
                   embed_failed, calls, sem_chunks, cov_chunks, sec_chunks, kw_chunks,
                   fused, context_block, analysis, raised>>
    /\ UNCHANGED <<scoreVars, enrichVars>>

\* lines 171-193: the reference names an uploaded document
ResolveUploaded ==
    /\ pc = "start"
    /\ policy_id \notin CatalogIds
    /\ policy_id \in UploadedIds
    /\ \E stored \in StoreUploaded, all_catalog \in SeqsUpTo(StoreCatalog, MaxCatalog) :
          LET uploaded == [stored EXCEPT !.id = policy_id]
          IN  /\ policy_name' = DisplayName(uploaded.user_label)
              /\ search_policy_id' = UploadedSearchId(policy_id, uploaded)
              /\ policy' = Enrich(uploaded, all_catalog)
              /\ enriched' = (policy' # uploaded)
    /\ route' = "uploaded"
    /\ pc' = "embed_query"
    /\ UNCHANGED <<policy_id, condition, treatment_type, query_embedding,
                   coverage_embedding, embed_failed, calls, sem_chunks, cov_chunks,
                   sec_chunks, kw_chunks, fused, context_block, analysis, result, raised>>
    /\ UNCHANGED <<scoreVars, enrichVars>>

\* lines 196-200: embed the query text; a failure ends the request
EmbedQuery ==
    /\ pc = "embed_query"
    /\ calls' = Append(calls, Call("embed_text", "query", "", 0, <<>>))
    /\ \/ /\ query_embedding' = "query_vector"
          /\ pc' = "embed_coverage"
          /\ UNCHANGED <<embed_failed, result>>
       \/ /\ embed_failed' = embed_failed \cup {"query"}
          /\ Return(ErrorResult("Embedding failed"))
          /\ UNCHANGED query_embedding
    /\ UNCHANGED <<policy_id, condition, treatment_type, route, enriched, policy,
                   policy_name, search_policy_id, coverage_embedding, sem_chunks,
                   cov_chunks, sec_chunks, kw_chunks, fused, context_block, analysis,
                   raised>>
    /\ UNCHANGED <<scoreVars, enrichVars>>

\* lines 203-206: embed the coverage probe; a failure reuses the query vector
EmbedCoverage ==
    /\ pc = "embed_coverage"
    /\ calls' = Append(calls, Call("embed_text", "coverage_probe", "", 0, <<>>))
    /\ \/ /\ coverage_embedding' = "coverage_vector"
          /\ UNCHANGED embed_failed
       \/ /\ embed_failed' = embed_failed \cup {"coverage"}
          /\ coverage_embedding' = CoverageFallback(query_embedding)
    /\ pc' = "semantic_search"
    /\ UNCHANGED <<policy_id, condition, treatment_type, route, enriched, policy,
                   policy_name, search_policy_id, query_embedding, sem_chunks,
                   cov_chunks, sec_chunks, kw_chunks, fused, context_block, analysis,
                   result, raised>>
    /\ UNCHANGED <<scoreVars, enrichVars>>

\* line 209
SemanticSearch ==
    /\ pc = "semantic_search"
    /\ calls' = Append(calls,
                  Call("semantic_search", query_embedding, search_policy_id, 6, <<>>))
    /\ sem_chunks' \in SemanticResults
    /\ pc' = "coverage_search"
    /\ UNCHANGED <<policy_id, condition, treatment_type, route, enriched, policy,
                   policy_name, search_policy_id, query_embedding, coverage_embedding,
                   embed_failed, cov_chunks, sec_chunks, kw_chunks, fused,
                   context_block, analysis, result, raised>>
    /\ UNCHANGED <<scoreVars, enrichVars>>

\* line 212
CoverageSearch ==
    /\ pc = "coverage_search"
    /\ calls' = Append(calls,
                  Call("semantic_search", coverage_embedding, search_policy_id, 4, <<>>))
    /\ cov_chunks' \in SemanticResults
    /\ pc' = "section_search"
    /\ UNCHANGED <<policy_id, condition, treatment_type, route, enriched, policy,
                   policy_name, search_policy_id, query_embedding, coverage_embedding,
                   embed_failed, sem_chunks, sec_chunks, kw_chunks, fused,
                   context_block, analysis, result, raised>>
    /\ UNCHANGED <<scoreVars, enrichVars>>

\* lines 215-217
SectionSearch ==
    /\ pc = "section_search"
    /\ calls' = Append(calls,
                  Call("section_search", query_embedding, search_policy_id, 4,
                       CLAIM_SECTIONS))
    /\ sec_chunks' \in SemanticResults
    /\ pc' = "keyword_search"
    /\ UNCHANGED <<policy_id, condition, treatment_type, route, enriched, policy,
                   policy_name, search_policy_id, query_embedding, coverage_embedding,
                   embed_failed, sem_chunks, cov_chunks, kw_chunks, fused,
                   context_block, analysis, result, raised>>
    /\ UNCHANGED <<scoreVars, enrichVars>>

\* line 220
KeywordSearch ==
    /\ pc = "keyword_search"
    /\ calls' = Append(calls,
                  Call("keyword_search", condition, search_policy_id, 10, <<>>))
    /\ kw_chunks' \in KeywordResults
    /\ pc' = "fuse"
    /\ UNCHANGED <<policy_id, condition, treatment_type, route, enriched, policy,
                   policy_name, search_policy_id, query_embedding, coverage_embedding,
                   embed_failed, sem_chunks, cov_chunks, sec_chunks, fused,
                   context_block, analysis, result, raised>>
    /\ UNCHANGED <<scoreVars, enrichVars>>

\* lines 223-232: dedupe, fuse, and the no-evidence guard
Fuse ==
    /\ pc = "fuse"
    /\ fused' = rrf_fusion(_dedupe(sem_chunks \o cov_chunks \o sec_chunks), kw_chunks, 10)
    /\ IF NoEvidence(fused')
       THEN Return(ErrorResult("No relevant policy clause found"))
       ELSE pc' = "analyze" /\ UNCHANGED result
    /\ UNCHANGED <<policy_id, condition, treatment_type, route, enriched, policy,
                   policy_name, search_policy_id, query_embedding, coverage_embedding,
                   embed_failed, calls, sem_chunks, cov_chunks, sec_chunks, kw_chunks,
                   context_block, analysis, raised>>
    /\ UNCHANGED <<scoreVars, enrichVars>>

\* lines 235-278: build the context, call the analysis service, normalise
\* its reply, score and return; a service error or the TypeError of
\* compute_claim_score leaves run_claim_check as an exception
Analyze ==
    /\ pc = "analyze"
    /\ context_block' = _build_context_block(fused)
    /\ calls' = Append(calls, Call("chat_json", "context_block", "", 0, <<>>))
    /\ \/ /\ raised' = "ServiceError"
          /\ UNCHANGED <<analysis, result>>
       \/ \E reply \in AnalysisReplies :
             LET out == AnalysisOutcome(reply, policy_name, condition, treatment_type,
                                        policy, fused)
             IN  /\ analysis' = reply
                 /\ raised' = out.raised
                 /\ result' = out.result
    /\ pc' = "done"
    /\ UNCHANGED <<policy_id, condition, treatment_type, route, enriched, policy,
                   policy_name, search_policy_id, query_embedding, coverage_embedding,
                   embed_failed, sem_chunks, cov_chunks, sec_chunks, kw_chunks, fused>>
    /\ UNCHANGED <<scoreVars, enrichVars>>

Next ==
    \/ ResolveCatalog
    \/ ResolveNotFound
    \/ ResolveUploaded
    \/ EmbedQuery
    \/ EmbedCoverage
    \/ SemanticSearch
    \/ CoverageSearch
    \/ SectionSearch
    \/ KeywordSearch
    \/ Fuse
    \/ Analyze

(* ------------------------------------------------------------------ *)
(* Specifications                                                      *)
(* ------------------------------------------------------------------ *)
ScoreIdle ==
    /\ sc_status = EmptyStr
    /\ sc_exclusions = PyNone
    /\ sc_flags = PyNone
    /\ sc_policy = [waiting_period_preexisting_years |-> Missing(0),
                    co_pay_percent |-> Missing(0),
                    room_rent_limit |-> Missing(EmptyStr)]
    /\ sc_result = NotCalled
    /\ sc_prev = NotCalled
    /\ sc_op = "idle"

EnrichIdle ==
    /\ en_uploaded = MakePolicy("", Missing(EmptyStr), Missing(""), Null(EmptyStr), {},
                                UploadedValues, "missing")
    /\ en_catalog = <<>>
    /\ en_policy = en_uploaded
    /\ en_pc = "idle"

PipeIdle ==
    /\ pc = "idle"
    /\ policy_id = ""
    /\ condition = ""
    /\ treatment_type = ""
    /\ route = "none"
    /\ enriched = FALSE
    /\ policy = NoPolicy
    /\ policy_name = ""
    /\ search_policy_id = ""
    /\ query_embedding = "none"
    /\ coverage_embedding = "none"
    /\ embed_failed = {}
    /\ calls = <<>>
    /\ sem_chunks = <<>> /\ cov_chunks = <<>> /\ sec_chunks = <<>> /\ kw_chunks = <<>>
    /\ fused = <<>>
    /\ context_block = <<>>
    /\ analysis = NoReply
    /\ result = NoResult
    /\ raised = "none"

Init == PipeInit /\ ScoreIdle /\ EnrichIdle

\* one run_claim_check request against every drawn collaborator behaviour
Spec ==
    /\ Init
    /\ [][Next]_vars

\* compute_claim_score alone: its arguments drawn, nothing else running
ScoreInit == ScoreInputs /\ EnrichIdle /\ PipeIdle

\* compute_claim_score on every drawn argument tuple
ScoreSpec ==
    /\ ScoreInit
    /\ [][ScoreNext]_vars

\* the enrichment loop alone: its records drawn, nothing else running
EnrichInit == EnrichInputs /\ ScoreIdle /\ PipeIdle

\* the enrichment loop on every drawn uploaded record and catalog list
EnrichSpec ==
    /\ EnrichInit
    /\ [][EnrichNext]_vars

(* ------------------------------------------------------------------ *)
(* Properties of compute_claim_score (under ScoreSpec)                 *)
(* ------------------------------------------------------------------ *)
ScoreCalled == sc_op \in {"call", "append_flag", "add_exclusion"}

\* C1: for every coverage_status, every exclusions and risk-flag list
\* (empty and None included) and every metadata record (fields absent
\* included), compute_claim_score returns an integer s with 0 <= s <= 100.
C1_ScoreInRange ==
    ScoreCalled => (sc_result.exc = "none" /\ sc_result.val \in 0..100)

\* The rule table of the specification, section 4.5, written from its text:
\* an absent metadata value takes the default (PED wait 4, co-pay 0).
RuleTablePed(entry) ==
    LET ped == IF entry.tag = "val" THEN entry.v ELSE 4
    IN  IF ped <= 1 THEN 20 ELSE IF ped <= 2 THEN 12 ELSE 0

RuleTableRoom(entry) ==
    LET text == IF entry.tag = "val" THEN entry.v ELSE EmptyStr
    IN  IF \E i \in 1..Len(text) : text[i] = "%" THEN 0 - 10
        ELSE IF text # EmptyStr
                /\ Lower(text) \notin {STR_no_limit, STR_no_sub_limits, STR_no_restriction}
             THEN 0 - 5
        ELSE 0

RuleTableSum(status, exclusions, flags, meta) ==
      (IF Lower(status) = STR_covered THEN 50
       ELSE IF Lower(status) = STR_partially_covered THEN 25 ELSE 0)
    + RuleTablePed(meta.waiting_period_preexisting_years)
    + (IF Len(exclusions.items) = 0 THEN 15 ELSE 0 - 25)
    + (IF Len(flags.items) = 0 THEN 10
       ELSE IF 5 * Len(flags.items) < 20 THEN 0 - 5 * Len(flags.items) ELSE 0 - 20)
    + (IF meta.co_pay_percent.tag = "val" /\ meta.co_pay_percent.v > 0
       THEN 0 - 5 ELSE 0)
    + RuleTableRoom(meta.room_rent_limit)

RuleTableScore(status, exclusions, flags, meta) ==
    LET sum == RuleTableSum(status, exclusions, flags, meta)
    IN  IF sum < 0 THEN 0 ELSE IF sum > 100 THEN 100 ELSE sum

\* the two worked examples of the specification, section 8
IsExampleOne ==
    /\ sc_status = STR_covered
    /\ sc_exclusions = PyList(<<>>) /\ sc_flags = PyList(<<>>)
    /\ sc_policy = [waiting_period_preexisting_years |-> Val(1),
                    co_pay_percent |-> Val(0), room_rent_limit |-> Val(STR_No_limit)]

IsExampleTwo ==
    /\ sc_status = STR_excluded
    /\ sc_exclusions.tag = "list" /\ Len(sc_exclusions.items) = 1
    /\ sc_flags.tag = "list" /\ Len(sc_flags.items) = 2
    /\ sc_policy = [waiting_period_preexisting_years |-> Val(4),
                    co_pay_percent |-> Val(10),
                    room_rent_limit |-> Val(STR_pct_of_sum_insured)]

\* C6 as stated, on the calls that return: compute_claim_score equals the
\* rule table (coverage base, PED wait with default 4, exclusions, risk
\* flags, co-pay, room-rent limit, clamped to [0,100]); the first example
\* gives 100 and the second gives 0.
C6_RuleTableAndExamples ==
    (ScoreCalled /\ sc_result.exc = "none") =>
        /\ sc_result.val = RuleTableScore(sc_status, sc_exclusions, sc_flags, sc_policy)
        /\ IsExampleOne => sc_result.val = 100
        /\ IsExampleTwo => sc_result.val = 0

\* C6 as amended: compute_claim_score equals the rule table whenever the
\* PED wait and the co-pay are numbers or their keys are missing, and raises
\* TypeError when either key holds None; the first example gives 95
\* (50 + 20 + 15 + 10), the second gives 0.
C6_RuleTableExampleOne95 ==
    ScoreCalled =>
        /\ IF \/ sc_policy.waiting_period_preexisting_years.tag = "null"
              \/ sc_policy.co_pay_percent.tag = "null"
           THEN sc_result = Raised("TypeError")
           ELSE sc_result =
                    Returned(RuleTableScore(sc_status, sc_exclusions, sc_flags, sc_policy))
        /\ IsExampleOne => sc_result = Returned(95)
        /\ IsExampleTwo => sc_result = Returned(0)

C6_Witness ==
    /\ ScoreCalled
    /\ IsExampleOne
    /\ sc_result = Returned(50 + 20 + 15 + 10)

\* C7 as stated: with everything else fixed, the call with a non-empty
\* exclusions list returns exactly 25 less than the call with an empty one.
C7_Exactly25Lower ==
    (sc_op = "add_exclusion" /\ sc_prev.exc = "none" /\ sc_result.exc = "none")
        => sc_result.val = sc_prev.val - 25

\* C7 as amended: with everything else fixed, the call with a non-empty
\* exclusions list returns max(0, s - 40), s being what the call with an
\* empty list returns (40 lower, floored at 0); when the metadata makes the
\* call with the empty list raise TypeError, so does the other call.
C7_FortyLowerFloored ==
    sc_op = "add_exclusion" =>
        \/ sc_prev.exc = "TypeError" /\ sc_result.exc = "TypeError"
        \/ /\ sc_prev.exc = "none" /\ sc_result.exc = "none"
           /\ sc_result.val = Max(0, sc_prev.val - 40)

C7_Witness ==
    /\ sc_op = "add_exclusion"
    /\ sc_prev.exc = "none" /\ sc_result.exc = "none"
    /\ sc_result.val > 0
    /\ sc_result.val = sc_prev.val - 40

\* C8: with everything else fixed, appending one risk flag never increases
\* the score (a call that raises on the metadata raises with and without
\* the flag, and returns no score to compare).
C8_FlagNeverIncreases ==
    sc_op = "append_flag" =>
        \/ sc_prev.exc = "TypeError" /\ sc_result.exc = "TypeError"
        \/ /\ sc_prev.exc = "none" /\ sc_result.exc = "none"
           /\ sc_result.val <= sc_prev.val

C8_Witness ==
    /\ sc_op = "append_flag"
    /\ Len(sc_flags.items) > 4
    /\ sc_prev.exc = "none" /\ sc_result.exc = "none"
    /\ sc_result.val > 0
    /\ sc_result.val = sc_prev.val

(* ------------------------------------------------------------------ *)
(* Properties of the enrichment (under EnrichSpec)                     *)
(* ------------------------------------------------------------------ *)
\* an insurer name as text, an absent name being the empty text
C9_Name(record) ==
    Lower(IF record.insurer.tag = "val" THEN record.insurer.v ELSE EmptyStr)

C9_Substring(a, b) ==
    \E i \in 0..(Len(b) - Len(a)) : SubSeq(b, i + 1, i + Len(a)) = a

\* a case-insensitive substring match in either direction
C9_EitherDirection(record) ==
    \/ C9_Substring(C9_Name(record), C9_Name(en_uploaded))
    \/ C9_Substring(C9_Name(en_uploaded), C9_Name(record))

C9_HasValue(entry) == entry.tag = "val"

\* what the claim says of the record after enrichment, "matches" being the
\* set of positions of the catalog list that count as a match
C9_EnrichedAsClaimed(matches) ==
    /\ \A f \in ScoringFieldSet :
          IF C9_HasValue(en_uploaded[f]) THEN en_policy[f] = en_uploaded[f]
          ELSE IF matches = {} THEN ~C9_HasValue(en_policy[f])
          ELSE LET first == CHOOSE i \in matches : \A j \in matches : i <= j
               IN  IF C9_HasValue(en_catalog[first][f])
                   THEN en_policy[f] = en_catalog[first][f]
                   ELSE ~C9_HasValue(en_policy[f])
    /\ \A f \in {"id", "name", "user_label", "insurer"} : en_policy[f] = en_uploaded[f]

\* C9 as stated: a catalog record matches when its insurer name is a
\* case-insensitive substring match, in either direction, of the uploaded
\* insurer name.
C9_EnrichmentAsStated ==
    en_pc = "done" =>
        C9_EnrichedAsClaimed({i \in 1..Len(en_catalog) : C9_EitherDirection(en_catalog[i])})

\* C9 as amended: the same, for an uploaded record that has a non-empty
\* insurer name; an uploaded record with no insurer name, or an empty one,
\* is enriched from no catalog record.
C9_EnrichmentNeedsUploadedInsurer ==
    en_pc = "done" =>
        C9_EnrichedAsClaimed({i \in 1..Len(en_catalog) :
            C9_Name(en_uploaded) # EmptyStr /\ C9_EitherDirection(en_catalog[i])})

\* a second matching record differs from the first, the uploaded record
\* keeps a value of its own and takes one from the first match
C9_Witness ==
    /\ en_pc = "done"
    /\ Len(en_catalog) = 2
    /\ C9_Name(en_uploaded) # EmptyStr
    /\ C9_Name(en_catalog[1]) # C9_Name(en_uploaded)
    /\ C9_EitherDirection(en_catalog[1]) /\ C9_EitherDirection(en_catalog[2])
    /\ C9_HasValue(en_uploaded.room_rent_limit)
    /\ C9_HasValue(en_catalog[1].room_rent_limit)
    /\ ~C9_HasValue(en_uploaded.co_pay_percent)
    /\ C9_HasValue(en_catalog[1].co_pay_percent)
    /\ C9_HasValue(en_catalog[2].co_pay_percent)
    /\ en_catalog[1].co_pay_percent # en_catalog[2].co_pay_percent
    /\ en_policy.co_pay_percent = en_catalog[1].co_pay_percent

(* ------------------------------------------------------------------ *)
(* Properties of run_claim_check (under Spec)                          *)
(* ------------------------------------------------------------------ *)
CallsTo(fns) == {i \in 1..Len(calls) : calls[i].fn \in fns}
SearchCalls == CallsTo({"semantic_search", "section_search", "keyword_search"})
AnalysisCalls == CallsTo({"chat_json"})

Returns == pc = "done" /\ raised = "none"
IsErrorResult == result.fields = {"error"} /\ result.error \notin {"", "None"}
AllSearchesEmpty ==
    /\ Cardinality(SearchCalls) = 4
    /\ sem_chunks = <<>> /\ cov_chunks = <<>> /\ sec_chunks = <<>> /\ kw_chunks = <<>>

\* C2: when both semantic searches, the section search and the keyword
\* search return empty lists, run_claim_check returns an error result (a
\* non-empty message, no success field) and never calls the analysis
\* service; the analysis service is never called with a context built from
\* an empty fused set.
C2_NoEvidenceGuard ==
    /\ (pc = "done" /\ AllSearchesEmpty) =>
          (Returns /\ IsErrorResult /\ AnalysisCalls = {})
    /\ AnalysisCalls # {} => (fused # <<>> /\ context_block # <<>>)

C2_Witness ==
    /\ pc = "done" /\ AllSearchesEmpty
    /\ result = ErrorResult("No relevant policy clause found")

\* the four terminal conditions of the error taxonomy, read off the run
PolicyNotFound == route = "none" /\ pc = "done"
NoIndexedDocument == route = "catalog" /\ search_policy_id = "" /\ pc = "done"
EmbeddingFailure == "query" \in embed_failed
NoEvidenceFound == Cardinality(SearchCalls) = 4 /\ pc \in {"analyze", "done"} /\ fused = <<>>

\* C3: run_claim_check always returns a result and lets no exception
\* escape: the four conditions PolicyNotFound, NoIndexedDocument,
\* EmbeddingFailure and NoEvidenceFound give an error result, and every
\* other behaviour of the collaborators (a missing or malformed analysis
\* reply, absent metadata values) gives a success result.
C3_AlwaysReturnsResult ==
    pc = "done" =>
        /\ raised = "none"
        /\ IF PolicyNotFound \/ NoIndexedDocument \/ EmbeddingFailure \/ NoEvidenceFound
           THEN IsErrorResult
           ELSE result.fields = SuccessFields /\ result.error = "None"

ListFields ==
    {"severity_requirements", "exclusions_applicable", "risk_flags", "required_documents"}

ErrorShape ==
    /\ result.fields = {"error"}
    /\ result.error \notin {"", "None"}

\* the success body without its list fields
SuccessShape ==
    /\ result.fields = SuccessFields
    /\ result.error = "None"
    /\ result.policy_name # ""
    /\ result.diagnosis = condition
    /\ result.treatment_type = treatment_type
    /\ result.coverage_status \in
          {STR_covered, STR_partially_covered, STR_excluded, STR_unknown}
    /\ result.feasibility_score \in 0..100
    /\ result.analysis_summary # ""
    /\ result.chunks_used = Len(fused) /\ result.chunks_used > 0

\* C4 as stated: every result returned is either the error shape (error
\* set, no other field) or the success shape (error null and every success
\* field populated, the list fields as lists); never a mix.
C4_TwoShapesListsAreLists ==
    Returns =>
        \/ ErrorShape
        \/ SuccessShape /\ \A f \in ListFields : result[f].tag = "list"

\* C4 as amended: the same two shapes, where a list field of the success
\* shape is a list whenever the analysis reply gave a list, nothing, null
\* or another falsy value for it, and is the reply's own value, passed on
\* unchanged, when the reply gave a truthy value that is not a list.
C4_TwoShapesListsOrPassedOn ==
    Returns =>
        \/ ErrorShape
        \/ SuccessShape
           /\ \A f \in ListFields :
                 \/ result[f].tag = "list"
                 \/ result[f] = analysis[f] /\ analysis[f].tag \in {"str", "num"}
                    /\ Truthy(analysis[f])

C4_Witness ==
    /\ Returns /\ SuccessShape
    /\ analysis.coverage_status = Val(STR_Covered)
    /\ result.coverage_status = STR_unknown
    /\ analysis.risk_flags.tag = "str" /\ result.risk_flags = analysis.risk_flags
    /\ result.severity_requirements.tag = "str"
    /\ result.required_documents.tag = "num"

\* C5: for an uploaded policy, both semantic searches, the section search
\* and the keyword search are issued with the caller's policy reference as
\* the document identifier, whether or not a catalog record matched for
\* enrichment.
C5_UploadedSearchesOwnDocument ==
    route = "uploaded" =>
        /\ search_policy_id = policy_id
        /\ \A i \in SearchCalls : calls[i].doc = policy_id

C5_Witness ==
    /\ route = "uploaded" /\ enriched
    /\ pc = "done"
    /\ {calls[i].fn : i \in SearchCalls}
          = {"semantic_search", "section_search", "keyword_search"}
    /\ Cardinality(SearchCalls) = 4
    /\ \A i \in SearchCalls : calls[i].doc = "u1"

EmbedCalls(text) == {i \in 1..Len(calls) : calls[i].fn = "embed_text" /\ calls[i].arg = text}

\* C10: a failed query embedding ends the request with an error result
\* after one attempt, with no retrieval and no analysis call; a failed
\* coverage-probe embedding does not fail the request: the top-4 semantic
\* search is issued with the query vector and the request goes on to
\* retrieval, fusion and the guard.  Neither call is retried.
C10_EmbeddingFailures ==
    /\ Cardinality(EmbedCalls("query")) <= 1
    /\ Cardinality(EmbedCalls("coverage_probe")) <= 1
    /\ "query" \in embed_failed =>
          /\ Returns /\ result = ErrorResult("Embedding failed")
          /\ calls = <<Call("embed_text", "query", "", 0, <<>>)>>
    /\ "coverage" \in embed_failed =>
          /\ "query" \notin embed_failed
          /\ query_embedding = "query_vector"
          /\ coverage_embedding = query_embedding
          /\ result.error # "Embedding failed"
          /\ \A i \in SearchCalls :
                (calls[i].fn = "semantic_search" /\ calls[i].top_k = 4)
                    => calls[i].arg = "query_vector"
          /\ pc \in {"analyze", "done"} =>
                /\ Cardinality(SearchCalls) = 4
                /\ \E i \in SearchCalls :
                      calls[i].fn = "semantic_search" /\ calls[i].top_k = 4
          /\ pc = "done" => (NoEvidenceFound \/ AnalysisCalls # {})

C10_Witness ==
    /\ "coverage" \in embed_failed
    /\ Returns /\ result.fields = SuccessFields
    /\ \E i \in SearchCalls :
          /\ calls[i].fn = "semantic_search" /\ calls[i].top_k = 4
          /\ calls[i].arg = "query_vector"

====
